---- MODULE Spec2Model ----
(***************************************************************************)
(* Model of the conversion orchestration engine of convert-videos:        *)
(*   src/src/converter.py         ControlSignals, _run_ffmpeg_with_progress*)
(*                                and convert_files                        *)
(*   src/src/progress_tracker.py  StageProgressTracker, TaskProgressEmitter*)
(*                                                                         *)
(* Three parties run concurrently: the pipeline thread (convert_files),   *)
(* the controller thread (request_pause / request_resume /                *)
(* request_cancel) and the external ffmpeg processes.                      *)
(*                                                                         *)
(* Numbers.  Ratios of the tracker are held in units of 0.0002 (RatioOne is*)
(* 1.0).  Task-local progress handed to the emitter is held in units of   *)
(* 1/One, and overall progress in units of 1/(One * total_tasks), so that *)
(* base + ratio * extent and ((i-1) + p) / N are exact.  Time is held in  *)
(* ticks of TickMs milliseconds, as ages (time since an instant).         *)
(***************************************************************************)
EXTENDS Integers, Sequences, FiniteSets, TLC

\* ------------------------------------------------------------------ bounds
MaxTasks == 2
MaxLines == 2
MaxElapsed == 5

\* --------------------------------------------------------------- constants
TickMs == 100
RatioOne == 5000
One == 60 * RatioOne
prep_base == 15000
formats_extent == 270000
SyntheticThreshold == 3
EmitInterval == 2
EmitMinAdvance == 5
SyntheticIncrement == 50
fps == 12
TermRc == 2

DEFAULT_EXPORT_FORMATS == <<"gif", "apng">>
VALID_EXPORT_FORMATS == {"gif", "apng", "png_sequence"}
\* Faulty variant of VALID_SCALE_MODES: an unsupported mode is let through
SCALE_MODES_WITH_MOSAIC == {"center_crop", "stretch", "force_aspect", "mosaic"}
VALID_SCALE_MODES == {"center_crop", "stretch", "force_aspect"}

Min(a, b) == IF a <= b THEN a ELSE b
Max(a, b) == IF a >= b THEN a ELSE b

\* ------------------------------------------------------------------ inputs
\* export_formats tuples a caller may pass (empty selects the default).
FormatInputs ==
    { <<>>, <<"png_sequence", "png_sequence">>, <<"gif", "webp">> }

ScaleModeInputs == {"center_crop", "stretch", "mosaic"}

\* width, height and fps a caller may pass (the defaults of ConversionRequest
\* but for the frame rate, and non-positive ones)
DefaultWidth == 320
DefaultHeight == 180
WidthInputs == {DefaultWidth, 0}
HeightInputs == {DefaultHeight, 0}
FpsInputs == {fps, 0}

\* Probed metadata of the tasks; 0 stands for None (both are falsy).
TaskInputs ==
    { [total_frames |-> 0, duration_ms |-> 0],
      [total_frames |-> 4, duration_ms |-> 0],
      [total_frames |-> 0, duration_ms |-> 500] }

\* Lines ffmpeg may print on its progress channel.
\* text is the value text, number its int() (-1 when int() raises ValueError);
\* has_eq tells whether the raw line holds a "=".
LineInputs ==
    { [has_eq |-> TRUE, key |-> "frame", text |-> "1", number |-> 1],
      [has_eq |-> TRUE, key |-> "frame", text |-> "3", number |-> 3],
      [has_eq |-> TRUE, key |-> "out_time_ms", text |-> "400", number |-> 400],
      [has_eq |-> TRUE, key |-> "progress", text |-> "end", number |-> -1],
      [has_eq |-> FALSE, key |-> "", text |-> "", number |-> -1] }

\* Tasks and lines for the tracker taken alone: a clip of 200 frames, a clip
\* of 150 seconds (a tick is then less than 0.001 of its duration), and the
\* lines frame=50, frame=40, frame=abc and out_time=00:00:00.300000 (for
\* out_time, number is the parsed time in milliseconds)
TrackerTaskInputs ==
    TaskInputs \cup { [total_frames |-> 200, duration_ms |-> 0],
                      [total_frames |-> 0, duration_ms |-> 150000] }

TrackerLineInputs ==
    LineInputs \cup
    { [has_eq |-> TRUE, key |-> "frame", text |-> "50", number |-> 50],
      [has_eq |-> TRUE, key |-> "frame", text |-> "40", number |-> 40],
      [has_eq |-> TRUE, key |-> "frame", text |-> "abc", number |-> -1],
      [has_eq |-> TRUE, key |-> "out_time", text |-> "00:00:00.300000", number |-> 300] }

\* Requests and frame counts for the size heuristic of the apng stage taken
\* alone (a frame count of 0 stands for None)
ApngWidthInputs == {64, 320, 1000}
ApngHeightInputs == {64, 180, 1000}
ApngFpsInputs == {5, 6, 7, 12, 30}
ApngFrameInputs == {0, 10, 100, 600}

NoError == [kind |-> "none", stage |-> 0]
NoReport == [task_index |-> 0, task_progress |-> 0, overall_progress |-> 0]

VARIABLES
    request,        \* ConversionRequest: tasks, export_formats, scale_mode, signals, progress
    task,           \* metadata shared by the tasks of the request
    posix,          \* sys.platform != "win32"
    pc,             \* position of the pipeline thread
    error,          \* exception convert_files ended with ("none" while running)
    dirs,           \* directories created so far
    export_formats, \* resolved export formats
    index,          \* 1-based task index of the loop
    fmt_index,      \* 0-based format index of the inner loop
    cancelled,      \* local flag of _run_ffmpeg_with_progress
    emit_arg,       \* progress_value of the pending TaskProgressEmitter.emit call
    emit_ret,       \* where the pending emit call returns to
    tracker,        \* StageProgressTracker of the stage in flight
    pause_event,    \* ControlSignals.pause_event
    cancel_event,   \* ControlSignals.cancel_event
    cancel_reason,  \* ControlSignals.cancel_reason
    sig_process,    \* ControlSignals._process (0 is None, else index in procs)
    ctl,            \* position of the controller thread
    procs,          \* external processes spawned so far, in spawn order
    pipe,           \* lines buffered in the stdout pipe of the stage in flight
    written,        \* lines written by the process of the stage in flight
    last_report,    \* last ConversionProgress the progress callback received
    regressed,      \* the callback saw overall_progress decrease
    worker          \* ConversionWorker.run around convert_files ("absent": none)

vars == << request, task, posix, pc, error, dirs, export_formats, index,
           fmt_index, cancelled, emit_arg, emit_ret, tracker, pause_event,
           cancel_event, cancel_reason, sig_process, ctl, procs, pipe,
           written, last_report, regressed, worker >>

\* What convert_files, ControlSignals and the processes never write
reqVars == << request, task, posix, worker >>
loopVars == << dirs, export_formats, index, fmt_index >>
emitVars == << emit_arg, emit_ret >>
pipelineVars == << pc, error, loopVars, cancelled, emitVars, tracker >>
sigVars == << pause_event, cancel_event, cancel_reason, sig_process >>
procVars == << procs, pipe, written >>
cbVars == << last_report, regressed >>

\* ------------------------------------------------------- tracker (pure part)
\* StageProgressTracker.__init__
NewTracker ==
    [ stage_ratio |-> 0, last_real_ratio |-> 0, last_emit_ratio |-> -RatioOne,
      since_real |-> 0, since_emit |-> 0, elapsed |-> 0 ]

\* convert_files: frame_estimate of a task
FrameEstimate(t) ==
    IF t.total_frames > 0 THEN Max(1, t.total_frames)
    ELSE IF t.duration_ms > 0
    THEN Max(1, (request.fps * t.duration_ms) \div 1000)
    ELSE 0

\* convert_files: format_extent and stage_base
FormatExtent(count) == IF count > 0 THEN formats_extent \div count ELSE 0
StageBase(count, k) == prep_base + FormatExtent(count) * k

\* StageProgressTracker._emit: global_ratio = base + ratio * extent
GlobalRatio(count, k, ratio) ==
    StageBase(count, k) + (ratio * FormatExtent(count)) \div RatioOne

\* StageProgressTracker.needs_synthetic_update
NeedsSyntheticUpdate(tr) == tr.since_real >= SyntheticThreshold

\* Faulty variant of SyntheticTarget: half the increment, whatever is known
SyntheticTargetHalfStep(tr, duration_ms, frame_estimate) ==
    Min(RatioOne, tr.stage_ratio + SyntheticIncrement \div 2)

\* StageProgressTracker.synthetic_step: the target ratio
SyntheticTarget(tr, duration_ms, frame_estimate) ==
    LET elapsed_ms == tr.elapsed * TickMs
    IN  IF duration_ms > 0
        THEN Max(tr.stage_ratio, Min(RatioOne, (elapsed_ms * RatioOne) \div duration_ms))
        ELSE IF frame_estimate > 0
        THEN LET average == Max(10, frame_estimate)
                 \* max(0.5, frame_estimate / average) seconds, in milliseconds
                 denom_ms == Max(500, (frame_estimate * 1000) \div average)
             IN  Max(tr.stage_ratio, Min(RatioOne, (elapsed_ms * RatioOne) \div denom_ms))
        ELSE Min(RatioOne, tr.stage_ratio + SyntheticIncrement)

\* Faulty variant of ParsedRatio: only frame counts are understood
ParsedRatioFramesOnly(l, frame_estimate, duration_ms) ==
    IF frame_estimate > 0 /\ l.key = "frame" /\ l.number >= 0
    THEN (l.number * RatioOne) \div frame_estimate
    ELSE -1

\* StageProgressTracker.try_update_from_ffmpeg: ratio_update before clamping
\* (-1 stands for None)
ParsedRatio(l, frame_estimate, duration_ms) ==
    IF frame_estimate > 0 /\ l.key = "frame"
    THEN IF l.number >= 0 THEN (l.number * RatioOne) \div frame_estimate ELSE -1
    ELSE IF duration_ms > 0 /\ l.key \in {"out_time_ms", "out_time_us"}
    THEN LET scale == IF l.key = "out_time_ms" THEN 1 ELSE 1000
         IN  IF l.number >= 0
             THEN (l.number * RatioOne) \div (scale * duration_ms)
             ELSE -1
    ELSE IF duration_ms > 0 /\ l.key = "out_time"
    THEN IF l.number >= 0 THEN (l.number * RatioOne) \div duration_ms ELSE -1
    ELSE IF l.key = "progress" /\ l.text = "end"
    THEN RatioOne
    ELSE -1

\* Faulty variant of ClampReal: no clamp against the last real ratio
ClampUpperOnly(tr, ratio_update) == Min(RatioOne, ratio_update)

\* StageProgressTracker.try_update_from_ffmpeg: the clamped ratio
ClampReal(tr, ratio_update) == Min(RatioOne, Max(ratio_update, tr.last_real_ratio))

\* StageProgressTracker._emit: the throttle
ShouldEmit(tr, ratio, force) ==
    \/ force
    \/ ratio - tr.last_emit_ratio >= EmitMinAdvance
    \/ tr.since_emit >= EmitInterval
    \/ ratio >= RatioOne

\* StageProgressTracker._emit as a function of the tracker (a callback is set)
Emitted(tr, ratio, force) ==
    IF ShouldEmit(tr, ratio, force)
    THEN [tr EXCEPT !.last_emit_ratio = ratio, !.since_emit = 0]
    ELSE tr

\* StageProgressTracker.synthetic_step as a function of the tracker
SyntheticStep(tr, duration_ms, frame_estimate) ==
    LET target == SyntheticTarget(tr, duration_ms, frame_estimate)
    IN  IF target > tr.stage_ratio
        THEN Emitted([tr EXCEPT !.stage_ratio = target], target, TRUE)
        ELSE tr

\* StageProgressTracker.try_update_from_ffmpeg as a function of the tracker
TryUpdateFromFfmpeg(tr, l, frame_estimate, duration_ms) ==
    LET ratio_update == ParsedRatio(l, frame_estimate, duration_ms)
        clamped == ClampReal(tr, ratio_update)
    IN  IF ratio_update >= 0
        THEN Emitted([tr EXCEPT !.stage_ratio = clamped,
                                !.last_real_ratio = clamped,
                                !.since_real = 0],
                     clamped, FALSE)
        ELSE tr

\* TaskProgressEmitter.emit: clamped and overall
Clamp01(v) == Max(0, Min(One, v))
\* Faulty variants of OverallProgress: the task index taken as 0-based
OverallOffByOne(i, n, clamped) == Min(One * n, (i - 2) * One + clamped)
OverallZeroBased(i, n, clamped) == Min(One * n, i * One + clamped)
OverallProgress(i, n, clamped) == Min(One * n, (i - 1) * One + clamped)

\* ------------------------------------------------------------ command lines
\* A frame rate as an exact fraction num / den
Rate(n) == [num |-> n, den |-> 1]

\* _gif_filter: the filter chain scale (, crop | pad), fps
GifFilter(width, height, rate, scale_mode) ==
    [ width |-> width, height |-> height, fps |-> rate,
      scale |-> CASE scale_mode = "center_crop" -> "increase"
                  [] scale_mode = "stretch" -> "plain"
                  [] scale_mode = "force_aspect" -> "decrease"
                  [] OTHER -> "InvalidScaleMode",
      fit |-> CASE scale_mode = "center_crop" -> "crop"
                [] scale_mode = "stretch" -> "none"
                [] scale_mode = "force_aspect" -> "pad"
                [] OTHER -> "InvalidScaleMode" ]

\* _calculate_apng_params: target_size_bytes and min_fps
target_size_bytes == 2 * 1024 * 1024
min_fps == 6
MinFrames == 30

\* _calculate_apng_params: estimated_size <= target_size_bytes, where
\* estimated_size = width * height * 0.5 * frames
WithinTarget(width, height, frames) ==
    width * height * frames <= 2 * target_size_bytes

\* Faulty variant of LowerFrameRate: straight to min_fps
LowerFrameRateToFloor(width, height, rate, frame_estimate, a) ==
    [ num |-> min_fps, den |-> 1,
      frames |-> (frame_estimate * min_fps) \div rate ]

\* _calculate_apng_params: the while loop; a holds adjusted_fps (num / den)
\* and adjusted_frames
RECURSIVE LowerFrameRate(_, _, _, _, _)
LowerFrameRate(width, height, rate, frame_estimate, a) ==
    IF a.num > min_fps * a.den /\ ~WithinTarget(width, height, a.frames)
    THEN LET lowered == IF 4 * a.num >= min_fps * 5 * a.den
                        THEN [num |-> 4 * a.num, den |-> 5 * a.den]
                        ELSE [num |-> min_fps, den |-> 1]
             frames == (frame_estimate * lowered.num) \div (lowered.den * rate)
         IN  LowerFrameRate(width, height, rate, frame_estimate,
                            [ num |-> lowered.num, den |-> lowered.den,
                              frames |-> frames ])
    ELSE a

\* Faulty variant of CalculateApngParams: nothing is adjusted
CalculateApngParamsUnadjusted(width, height, rate, frame_estimate) ==
    [fps |-> Rate(rate), max_frames |-> 0]

\* _calculate_apng_params: (adjusted frame rate, frame cap); a cap of 0 and a
\* frame_estimate of 0 stand for None
CalculateApngParams(width, height, rate, frame_estimate) ==
    IF frame_estimate <= 0 \/ WithinTarget(width, height, frame_estimate)
    THEN [fps |-> Rate(rate), max_frames |-> 0]
    ELSE LET a == LowerFrameRate(width, height, rate, frame_estimate,
                                 [ num |-> rate, den |-> 1,
                                   frames |-> frame_estimate ])
             adjusted_fps == [num |-> a.num, den |-> a.den]
             max_frames == (2 * target_size_bytes) \div (width * height)
         IN  IF WithinTarget(width, height, a.frames)
             THEN [fps |-> adjusted_fps, max_frames |-> 0]
             ELSE [ fps |-> adjusted_fps,
                    max_frames |-> IF max_frames < a.frames
                                   THEN Max(MinFrames, max_frames)
                                   ELSE a.frames ]

\* convert_files: what the command line of a stage encodes
Command(fmt, r, frame_estimate) ==
    IF fmt = "apng"
    THEN LET p == CalculateApngParams(r.width, r.height, r.fps, frame_estimate)
         IN  [ filter |-> GifFilter(r.width, r.height, p.fps, "center_crop"),
               max_frames |-> p.max_frames ]
    ELSE [ filter |-> GifFilter(r.width, r.height, Rate(r.fps), r.scale_mode),
           max_frames |-> 0 ]

\* ---------------------------------------------------------------- requests
RECURSIVE Dedup(_, _)
Dedup(s, seen) ==
    IF s = <<>> THEN <<>>
    ELSE IF s[1] \in seen THEN Dedup(Tail(s), seen)
    ELSE <<s[1]>> \o Dedup(Tail(s), seen \cup {s[1]})

\* Faulty variant of ResolveFormats: duplicates are kept
ResolveFormatsKeepDuplicates(raw) ==
    IF raw = <<>> THEN DEFAULT_EXPORT_FORMATS ELSE raw

\* convert_files: export_formats = list(dict.fromkeys(raw_formats)) with defaults
ResolveFormats(raw) ==
    LET raw_formats == IF raw = <<>> THEN DEFAULT_EXPORT_FORMATS ELSE raw
        resolved == Dedup(raw_formats, {})
    IN  IF resolved = <<>> THEN DEFAULT_EXPORT_FORMATS ELSE resolved

Range(s) == { s[i] : i \in 1..Len(s) }

\* Number of stages (external processes) of a successful run of request r
Stages(r) == r.tasks * Len(ResolveFormats(r.export_formats))

\* The request carries the default width, height and frame rate
DefaultDimensions(r) ==
    r.width = DefaultWidth /\ r.height = DefaultHeight /\ r.fps = fps

\* Runs explored.  The platform only matters to ControlSignals.  Runs with
\* control signals have a progress callback and at most two stages, and their
\* tasks carry no duration; tasks with a frame count run as one stage.  The
\* scale mode stretch and the non-default dimensions are run without control
\* signals, the latter on one task without metadata and the default formats.
Scenario(r, t, p) ==
    /\ ~r.signals => p
    /\ r.signals =>
          /\ r.progress
          /\ Stages(r) <= 2
          /\ t.duration_ms = 0
          /\ t.total_frames > 0 => Stages(r) = 1
          /\ r.scale_mode # "stretch"
          /\ DefaultDimensions(r)
    /\ r.scale_mode = "stretch" =>
          r.progress /\ r.tasks = 1 /\ r.export_formats = <<>>
    /\ ~DefaultDimensions(r) =>
          /\ r.progress
          /\ r.tasks = 1
          /\ r.export_formats = <<>>
          /\ r.scale_mode = "center_crop"
          /\ t.total_frames = 0
          /\ t.duration_ms = 0

Init ==
    /\ request \in [ tasks : 0..MaxTasks,
                     export_formats : FormatInputs,
                     scale_mode : ScaleModeInputs,
                     signals : BOOLEAN,
                     progress : BOOLEAN,
                     width : WidthInputs,
                     height : HeightInputs,
                     fps : FpsInputs ]
    /\ task \in TaskInputs
    /\ posix \in BOOLEAN
    /\ Scenario(request, task, posix)
    /\ pc = "start"
    /\ error = NoError
    /\ dirs = {}
    /\ export_formats = <<>>
    /\ index = 0
    /\ fmt_index = 0
    /\ cancelled = FALSE
    /\ emit_arg = 0
    /\ emit_ret = "none"
    /\ tracker = NewTracker
    /\ pause_event = FALSE
    /\ cancel_event = FALSE
    /\ cancel_reason = "none"
    /\ sig_process = 0
    /\ ctl = IF request.signals THEN "idle" ELSE "absent"
    /\ procs = <<>>
    /\ pipe = 0
    /\ written = 0
    /\ last_report = NoReport
    /\ regressed = FALSE
    /\ worker = "absent"

\* ---------------------------------------------------------------- processes
Alive(p) == p.st \in {"running", "closed"}

\* subprocess.Popen(...)
NewProcess(i, f) ==
    [ st |-> "running", stopped |-> FALSE, term_requested |-> FALSE,
      rc |-> 0, task_index |-> i, fmt |-> f,
      command |-> Command(f, request, FrameEstimate(task)) ]

\* Popen.terminate(): SIGTERM / TerminateProcess, nothing once the child is gone
Terminate(p) == IF Alive(p) THEN [p EXCEPT !.term_requested = TRUE] ELSE p

\* Popen.send_signal(SIGSTOP) and Popen.send_signal(SIGCONT).  The child
\* closes its pipes by exiting, so one whose pipes are at end of stream is
\* past the point where a stop signal suspends it.
Stop(p) == IF p.st = "running" THEN [p EXCEPT !.stopped = TRUE] ELSE p
Cont(p) == IF Alive(p) THEN [p EXCEPT !.stopped = FALSE] ELSE p

\* Popen.kill(): SIGKILL acts on a stopped process too
Kill(p) ==
    IF Alive(p)
    THEN [p EXCEPT !.st = "exited", !.stopped = FALSE, !.term_requested = TRUE,
                   !.rc = TermRc]
    ELSE p

\* Faulty variant of ProcessWait: poll() instead of wait()
ProcessPoll(p) == TRUE

\* Popen.wait() returns once the child has exited
ProcessWait(p) == p.st = "exited"

\* End of stream on the child's stdout / stderr pipes
PipesClosed(p) == p.st \in {"closed", "exited", "reaped"}

Current == Len(procs)

\* The reader still holds the stdout pipe of the stage in flight
StdoutOpen ==
    \/ pc \in {"attach", "read", "line_c1", "line_wait", "line_c2", "synth", "parse"}
    \/ pc \in {"emit_wait", "emit_check", "emit_deliver"} /\ emit_ret \in {"read", "parse"}

\* ffmpeg prints one progress line
ProcWrite ==
    /\ Current > 0
    /\ procs[Current].st = "running"
    /\ ~procs[Current].stopped
    /\ written < MaxLines
    /\ written' = written + 1
    /\ pipe' = IF StdoutOpen THEN pipe + 1 ELSE pipe
    /\ UNCHANGED << reqVars, pipelineVars, sigVars, ctl, procs, cbVars >>

\* ffmpeg finishes its work and closes its pipes
ProcClose ==
    /\ Current > 0
    /\ procs[Current].st = "running"
    /\ ~procs[Current].stopped
    /\ ~procs[Current].term_requested
    /\ procs' = [procs EXCEPT ![Current].st = "closed"]
    /\ UNCHANGED << reqVars, pipelineVars, sigVars, ctl, pipe, written, cbVars >>

\* ffmpeg exits by itself, with status 0 or 1
ProcExit ==
    /\ Current > 0
    /\ procs[Current].st = "closed"
    /\ ~procs[Current].stopped
    /\ \E code \in {0, 1} :
          procs' = [procs EXCEPT ![Current].st = "exited", ![Current].rc = code]
    /\ UNCHANGED << reqVars, pipelineVars, sigVars, ctl, pipe, written, cbVars >>

\* A pending termination request is delivered: not while the child is stopped
ProcDie ==
    /\ Current > 0
    /\ Alive(procs[Current])
    /\ procs[Current].term_requested
    /\ ~procs[Current].stopped
    /\ procs' = [procs EXCEPT ![Current].st = "exited", ![Current].rc = TermRc]
    /\ UNCHANGED << reqVars, pipelineVars, sigVars, ctl, pipe, written, cbVars >>

ProcessNext == ProcWrite \/ ProcClose \/ ProcExit \/ ProcDie

\* --------------------------------------------------------------- controller
Running == pc \notin {"returned", "raised"}

\* Exceptions the signalling of the tracked process can raise inside the try
\* block of a request: the child is gone (ProcessLookupError), or attach(None)
\* swapped the reference between the test and the call (AttributeError)
SignalErrors(target) ==
    IF target = 0
    THEN IF Len(procs) > 0 THEN {"AttributeError"} ELSE {}
    ELSE IF Alive(procs[target]) THEN {} ELSE {"ProcessLookupError"}

\* Faulty variant of Swallowed: the requests have no exception handler
SwallowsNothing(exc) == FALSE

\* except Exception: pass
Swallowed(exc) == exc \in {"ProcessLookupError", "AttributeError"}

\* Position of the controller thread after the try block of a request
AfterSignal(exc) == IF exc = "none" \/ Swallowed(exc) THEN "idle" ELSE "raised"

\* request_pause: pause_event.clear()
RequestPause ==
    /\ ctl = "idle"
    /\ Running
    /\ pause_event' = FALSE
    /\ ctl' = "pause_signal"
    /\ UNCHANGED << reqVars, pipelineVars, cancel_event, cancel_reason,
                    sig_process, procVars, cbVars >>

\* request_pause: send SIGSTOP to the attached process
RequestPauseSignal ==
    /\ ctl = "pause_signal"
    /\ \E exc \in {"none"} \cup (IF posix THEN SignalErrors(sig_process) ELSE {}) :
          /\ procs' = IF exc = "none" /\ sig_process # 0 /\ posix
                      THEN [procs EXCEPT ![sig_process] = Stop(@)]
                      ELSE procs
          /\ ctl' = AfterSignal(exc)
    /\ UNCHANGED << reqVars, pipelineVars, sigVars, pipe, written, cbVars >>

\* request_resume: pause_event.set()
RequestResume ==
    /\ ctl = "idle"
    /\ Running
    /\ pause_event' = TRUE
    /\ ctl' = "resume_signal"
    /\ UNCHANGED << reqVars, pipelineVars, cancel_event, cancel_reason,
                    sig_process, procVars, cbVars >>

\* request_resume: send SIGCONT to the attached process
RequestResumeSignal ==
    /\ ctl = "resume_signal"
    /\ \E exc \in {"none"} \cup (IF posix THEN SignalErrors(sig_process) ELSE {}) :
          /\ procs' = IF exc = "none" /\ sig_process # 0 /\ posix
                      THEN [procs EXCEPT ![sig_process] = Cont(@)]
                      ELSE procs
          /\ ctl' = AfterSignal(exc)
    /\ UNCHANGED << reqVars, pipelineVars, sigVars, pipe, written, cbVars >>

\* Faulty variant of RequestCancel: the pause flag is set and the cancel flag
\* is not
RequestCancelPauseFirst ==
    /\ ctl = "idle"
    /\ Running
    /\ cancel_reason' = "set"
    /\ pause_event' = TRUE
    /\ ctl' = "cancel_pause"
    /\ UNCHANGED << reqVars, pipelineVars, cancel_event, sig_process, procVars,
                    cbVars >>

\* request_cancel: cancel_reason = ...; cancel_event.set()
RequestCancel ==
    /\ ctl = "idle"
    /\ Running
    /\ cancel_reason' = "set"
    /\ cancel_event' = TRUE
    /\ ctl' = "cancel_pause"
    /\ UNCHANGED << reqVars, pipelineVars, pause_event, sig_process, procVars,
                    cbVars >>

\* request_cancel: pause_event.set()
RequestCancelWake ==
    /\ ctl = "cancel_pause"
    /\ pause_event' = TRUE
    /\ ctl' = "cancel_terminate"
    /\ UNCHANGED << reqVars, pipelineVars, cancel_event, cancel_reason,
                    sig_process, procVars, cbVars >>

\* request_cancel: terminate the attached process
RequestCancelTerminate ==
    /\ ctl = "cancel_terminate"
    /\ \E exc \in {"none"} \cup SignalErrors(sig_process) :
          /\ procs' = IF exc = "none" /\ sig_process # 0
                      THEN [procs EXCEPT ![sig_process] = Terminate(@)]
                      ELSE procs
          /\ ctl' = AfterSignal(exc)
    /\ UNCHANGED << reqVars, pipelineVars, sigVars, pipe, written, cbVars >>

ControllerFinish ==
    RequestPauseSignal \/ RequestResumeSignal \/ RequestCancelWake
        \/ RequestCancelTerminate

ControllerNext == RequestPause \/ RequestResume \/ RequestCancel \/ ControllerFinish

\* ----------------------------------------------------------------- pipeline
\* An exception leaves convert_files (stage: the process a failure is about);
\* the frames of the emitter and of the tracker are gone with it
RaiseAt(kind, stage) ==
    /\ pc' = "raised"
    /\ error' = [kind |-> kind, stage |-> stage]
    /\ emit_arg' = 0
    /\ emit_ret' = "none"
    /\ tracker' = NewTracker

Raise(kind) == RaiseAt(kind, 0)

\* TaskProgressEmitter.emit is entered with progress_value v, to return to ret
CallEmit(v, ret) == pc' = "emit_wait" /\ emit_arg' = v /\ emit_ret' = ret

\* StageProgressTracker._emit(ratio, force) on tracker value tr, then go to ret
TrackerEmit(tr, ratio, force, ret) ==
    IF ShouldEmit(tr, ratio, force)
    THEN /\ tracker' = [tr EXCEPT !.last_emit_ratio = ratio, !.since_emit = 0]
         /\ CallEmit(GlobalRatio(Len(export_formats), fmt_index, ratio), ret)
    ELSE /\ tracker' = tr
         /\ pc' = ret
         /\ UNCHANGED emitVars

\* convert_files: output_dir.mkdir, target_output_dir.mkdir
MakeOutputDirs ==
    /\ pc = "start"
    /\ dirs' = dirs \cup {"output_dir", "output"}
    /\ pc' = "check_tasks"
    /\ UNCHANGED << reqVars, ctl, error, export_formats, index, fmt_index,
                    cancelled, emitVars, tracker, sigVars, procVars, cbVars >>

\* convert_files: if not tasks: raise ConverterError
CheckTasks ==
    /\ pc = "check_tasks"
    /\ IF request.tasks = 0
       THEN Raise("ConverterError")
       ELSE pc' = "resolve_formats" /\ UNCHANGED << error, emitVars, tracker >>
    /\ UNCHANGED << reqVars, ctl, loopVars, cancelled, sigVars, procVars, cbVars >>

\* convert_files: resolve export_formats, reject invalid ones
CheckFormats ==
    /\ pc = "resolve_formats"
    /\ export_formats' = ResolveFormats(request.export_formats)
    /\ IF \E f \in Range(export_formats') : f \notin VALID_EXPORT_FORMATS
       THEN Raise("InvalidExportFormat")
       ELSE pc' = "format_dirs" /\ UNCHANGED << error, emitVars, tracker >>
    /\ UNCHANGED << reqVars, ctl, dirs, index, fmt_index, cancelled, sigVars,
                    procVars, cbVars >>

\* convert_files: one subdirectory per export format
MakeFormatDirs ==
    /\ pc = "format_dirs"
    /\ dirs' = dirs \cup Range(export_formats)
    /\ pc' = "check_scale"
    /\ UNCHANGED << reqVars, ctl, error, export_formats, index, fmt_index,
                    cancelled, emitVars, tracker, sigVars, procVars, cbVars >>

\* convert_files: scale mode validation, then signals.pause_event.set()
CheckScaleMode ==
    /\ pc = "check_scale"
    /\ IF request.scale_mode \notin VALID_SCALE_MODES
       THEN Raise("InvalidScaleMode") /\ UNCHANGED << pause_event, index >>
       ELSE /\ pause_event' = IF request.signals THEN TRUE ELSE pause_event
            /\ index' = 1
            /\ pc' = "task_top"
            /\ UNCHANGED << error, emitVars, tracker >>
    /\ UNCHANGED << reqVars, ctl, dirs, export_formats, fmt_index, cancelled,
                    cancel_event, cancel_reason, sig_process, procVars, cbVars >>

\* Faulty variant of TaskTop: the cancel flag is not looked at
TaskTopNoCancelCheck ==
    /\ pc = "task_top"
    /\ CallEmit(0, "spawn")
    /\ fmt_index' = 0
    /\ UNCHANGED << reqVars, ctl, error, tracker, dirs, export_formats, index,
                    cancelled, sigVars, procVars, cbVars >>

\* convert_files: top of the task loop, then emit_abs(0.0, "preparing")
TaskTop ==
    /\ pc = "task_top"
    /\ IF request.signals /\ cancel_event
       THEN Raise("ConversionCancelled")
       ELSE CallEmit(0, "spawn") /\ UNCHANGED << error, tracker >>
    /\ fmt_index' = 0
    /\ UNCHANGED << reqVars, ctl, dirs, export_formats, index, cancelled,
                    sigVars, procVars, cbVars >>

\* TaskProgressEmitter.emit: the pause-wait loop
EmitWait ==
    /\ pc = "emit_wait"
    /\ ~(request.signals /\ ~pause_event /\ ~cancel_event)
    /\ pc' = "emit_check"
    /\ UNCHANGED << reqVars, ctl, error, loopVars, cancelled, emitVars,
                    tracker, sigVars, procVars, cbVars >>

\* Faulty variant of EmitRaises: the emitter ignores the cancel flag
EmitNeverRaises(signals, cancel_set) == FALSE

\* TaskProgressEmitter.emit: if signals.cancel_event.is_set(): raise
EmitRaises(signals, cancel_set) == signals /\ cancel_set

EmitCheck ==
    /\ pc = "emit_check"
    /\ IF EmitRaises(request.signals, cancel_event)
       THEN /\ Raise("ConversionCancelled")
            \* the finally clause of _run_ffmpeg_with_progress closes stdout
            /\ pipe' = 0
       ELSE /\ pc' = "emit_deliver"
            /\ UNCHANGED << error, emitVars, tracker, pipe >>
    /\ UNCHANGED << reqVars, ctl, loopVars, cancelled, sigVars, procs, written,
                    cbVars >>

\* TaskProgressEmitter.emit: build the report and call the progress callback.
\* Under ConversionWorker the callback is _forward_progress: its own pause-wait
\* loop, then raise main.ConversionCancelled if the cancel flag is set, else
\* progress_signal.emit(progress).
EmitDeliver ==
    /\ pc = "emit_deliver"
    /\ worker = "running" => pause_event \/ cancel_event
    /\ IF worker = "running" /\ cancel_event
       THEN /\ Raise("main.ConversionCancelled")
            \* the finally clause of _run_ffmpeg_with_progress closes stdout
            /\ pipe' = 0
            /\ UNCHANGED cbVars
       ELSE /\ IF request.progress
               THEN LET clamped == Clamp01(emit_arg)
                        overall == OverallProgress(index, request.tasks, clamped)
                    IN  /\ last_report' = [ task_index |-> index,
                                            task_progress |-> clamped,
                                            overall_progress |-> overall ]
                        /\ regressed' = (regressed \/ (last_report # NoReport
                                            /\ overall < last_report.overall_progress))
               ELSE UNCHANGED cbVars
            /\ pc' = emit_ret
            /\ emit_ret' = "none"
            /\ emit_arg' = 0
            /\ UNCHANGED << error, tracker, pipe >>
    /\ UNCHANGED << request, task, posix, worker, ctl, loopVars, cancelled,
                    sigVars, procs, written >>

\* convert_files: build the command line of the stage; subprocess.Popen
Spawn ==
    /\ pc = "spawn"
    /\ LET fmt == export_formats[fmt_index + 1]
       IN  /\ dirs' = IF fmt = "png_sequence" THEN dirs \cup {"sequence_root"} ELSE dirs
           /\ procs' = Append(procs, NewProcess(index, fmt))
    /\ pipe' = 0
    /\ written' = 0
    /\ pc' = "attach"
    /\ UNCHANGED << reqVars, ctl, error, export_formats, index, fmt_index,
                    cancelled, emitVars, tracker, sigVars, cbVars >>

\* _run_ffmpeg_with_progress: signals.attach(process), new tracker, emit_initial
Attach ==
    /\ pc = "attach"
    /\ sig_process' = IF request.signals THEN Current ELSE sig_process
    /\ tracker' = NewTracker
    /\ cancelled' = FALSE
    /\ CallEmit(StageBase(Len(export_formats), fmt_index), "read")
    /\ UNCHANGED << reqVars, ctl, error, loopVars, pause_event, cancel_event,
                    cancel_reason, procVars, cbVars >>

\* for raw_line in process.stdout: next line, or end of stream.  After the
\* loop only finish() uses the tracker, and it reads none of its fields.
ReadLine ==
    /\ pc = "read"
    /\ \/ /\ pipe > 0
          /\ pipe' = pipe - 1
          /\ pc' = "line_c1"
          /\ UNCHANGED tracker
       \/ /\ pipe = 0
          /\ PipesClosed(procs[Current])
          /\ pc' = "read_stderr"
          /\ tracker' = NewTracker
          /\ UNCHANGED pipe
    /\ UNCHANGED << reqVars, ctl, error, loopVars, cancelled, emitVars, sigVars,
                    procs, written, cbVars >>

\* The cancel check of the line loop, made at pc = at and continuing at next
LineCancel(at, next) ==
    /\ pc = at
    /\ IF request.signals /\ cancel_event
       THEN /\ cancelled' = TRUE
            /\ procs' = [procs EXCEPT ![Current] = Terminate(@)]
            /\ pipe' = 0
            /\ tracker' = NewTracker
            /\ pc' = "read_stderr"
       ELSE /\ pc' = next
            /\ UNCHANGED << cancelled, procs, pipe, tracker >>
    /\ UNCHANGED << reqVars, ctl, error, loopVars, emitVars, sigVars, written,
                    cbVars >>

LineCancelBefore == LineCancel("line_c1", "line_wait")
LineCancelAfter == LineCancel("line_c2", "synth")

\* Faulty variant of LineWait: the loop waits for the pause flag alone
LineWaitPauseOnly ==
    /\ pc = "line_wait"
    /\ ~(request.signals /\ ~pause_event)
    /\ pc' = "line_c2"
    /\ UNCHANGED << reqVars, ctl, error, loopVars, cancelled, emitVars,
                    tracker, sigVars, procVars, cbVars >>

\* The pause-wait loop of the line loop
LineWait ==
    /\ pc = "line_wait"
    /\ ~(request.signals /\ ~pause_event /\ ~cancel_event)
    /\ pc' = "line_c2"
    /\ UNCHANGED << reqVars, ctl, error, loopVars, cancelled, emitVars,
                    tracker, sigVars, procVars, cbVars >>

\* if tracker.needs_synthetic_update(now): tracker.synthetic_step(...)
Synthetic ==
    /\ pc = "synth"
    /\ LET target == SyntheticTarget(tracker, task.duration_ms, FrameEstimate(task))
       IN  IF NeedsSyntheticUpdate(tracker) /\ target > tracker.stage_ratio
           THEN TrackerEmit([tracker EXCEPT !.stage_ratio = target], target, TRUE, "parse")
           ELSE pc' = "parse" /\ UNCHANGED << tracker, emitVars >>
    /\ UNCHANGED << reqVars, ctl, error, loopVars, cancelled, sigVars, procVars,
                    cbVars >>

\* The rest of the loop body: split the line, tracker.try_update_from_ffmpeg
ParseLine ==
    /\ pc = "parse"
    /\ \E raw_line \in LineInputs :
       LET ratio_update == ParsedRatio(raw_line, FrameEstimate(task), task.duration_ms)
           clamped == ClampReal(tracker, ratio_update)
       IN  IF raw_line.has_eq /\ ratio_update >= 0
           THEN TrackerEmit([tracker EXCEPT !.stage_ratio = clamped,
                                            !.last_real_ratio = clamped,
                                            !.since_real = 0],
                            clamped, FALSE, "read")
           ELSE pc' = "read" /\ UNCHANGED << tracker, emitVars >>
    /\ UNCHANGED << reqVars, ctl, error, loopVars, cancelled, sigVars, procVars,
                    cbVars >>

\* process.stderr.read(): blocks until the child has closed stderr
ReadStderr ==
    /\ pc = "read_stderr"
    /\ PipesClosed(procs[Current])
    /\ pc' = "detach"
    /\ UNCHANGED << reqVars, ctl, error, loopVars, cancelled, emitVars,
                    tracker, sigVars, procVars, cbVars >>

\* Faulty variant of Detach: attach(None) leaves the pause flag as it is
DetachKeepsPause ==
    /\ pc = "detach"
    /\ sig_process' = IF request.signals THEN 0 ELSE sig_process
    /\ pc' = IF cancelled THEN "cancel_wait" ELSE "wait"
    /\ UNCHANGED << reqVars, ctl, error, loopVars, cancelled, emitVars,
                    tracker, pause_event, cancel_event, cancel_reason, procVars,
                    cbVars >>

\* signals.attach(None)
Detach ==
    /\ pc = "detach"
    /\ IF request.signals
       THEN sig_process' = 0 /\ pause_event' = TRUE
       ELSE UNCHANGED << sig_process, pause_event >>
    /\ pc' = IF cancelled THEN "cancel_wait" ELSE "wait"
    /\ UNCHANGED << reqVars, ctl, error, loopVars, cancelled, emitVars,
                    tracker, cancel_event, cancel_reason, procVars, cbVars >>

\* if cancelled: wait(timeout=1), on timeout kill and wait; raise ConversionCancelled
CancelWait ==
    /\ pc = "cancel_wait"
    /\ procs' = [procs EXCEPT ![Current] = [Kill(@) EXCEPT !.st = "reaped"]]
    /\ Raise("ConversionCancelled")
    /\ UNCHANGED << reqVars, ctl, loopVars, cancelled, sigVars, pipe, written,
                    cbVars >>

\* Faulty variant of Wait: the return code is handed back without
\* tracker.finish()
WaitSkipsFinish ==
    /\ pc = "wait"
    /\ ProcessWait(procs[Current])
    /\ procs' = [procs EXCEPT ![Current].st =
                    IF @ = "exited" THEN "reaped" ELSE @]
    /\ pc' = "check_rc"
    /\ UNCHANGED << reqVars, ctl, error, loopVars, cancelled, emitVars,
                    tracker, sigVars, pipe, written, cbVars >>

\* returncode = process.wait()
Wait ==
    /\ pc = "wait"
    /\ ProcessWait(procs[Current])
    /\ procs' = [procs EXCEPT ![Current].st =
                    IF @ = "exited" THEN "reaped" ELSE @]
    /\ pc' = "finish"
    /\ UNCHANGED << reqVars, ctl, error, loopVars, cancelled, emitVars,
                    tracker, sigVars, pipe, written, cbVars >>

\* tracker.finish(), then return returncode, stderr_output
Finish ==
    /\ pc = "finish"
    /\ TrackerEmit(NewTracker, RatioOne, TRUE, "check_rc")
    /\ UNCHANGED << reqVars, ctl, error, loopVars, cancelled, sigVars, procVars,
                    cbVars >>

\* Faulty variant of StageFailed: the return code is ignored
StageNeverFailed(return_code) == FALSE

\* convert_files: if return_code != 0: raise ConverterError
StageFailed(return_code) == return_code # 0

\* Faulty variant of CheckReturnCode: no report at the end of a task
CheckReturnCodeNoDone ==
    /\ pc = "check_rc"
    /\ IF StageFailed(procs[Current].rc)
       THEN /\ RaiseAt("ConverterError", Current)
            /\ UNCHANGED fmt_index
       ELSE /\ IF fmt_index + 1 < Len(export_formats)
               THEN fmt_index' = fmt_index + 1 /\ pc' = "spawn"
               ELSE fmt_index' = fmt_index /\ pc' = "task_next"
            /\ tracker' = NewTracker
            /\ UNCHANGED << error, emitVars >>
    /\ UNCHANGED << reqVars, ctl, dirs, export_formats, index, cancelled,
                    sigVars, procVars, cbVars >>

\* convert_files: after a stage; next format, or emit_abs(1.0, "done")
CheckReturnCode ==
    /\ pc = "check_rc"
    /\ IF StageFailed(procs[Current].rc)
       THEN /\ RaiseAt("ConverterError", Current)
            /\ UNCHANGED fmt_index
       ELSE IF fmt_index + 1 < Len(export_formats)
       THEN /\ fmt_index' = fmt_index + 1
            /\ pc' = "spawn"
            /\ tracker' = NewTracker
            /\ UNCHANGED << error, emitVars >>
       ELSE /\ CallEmit(One, "task_next")
            /\ tracker' = NewTracker
            /\ UNCHANGED << error, fmt_index >>
    /\ UNCHANGED << reqVars, ctl, dirs, export_formats, index, cancelled,
                    sigVars, procVars, cbVars >>

\* convert_files: next task, or return
TaskNext ==
    /\ pc = "task_next"
    /\ IF index < request.tasks
       THEN index' = index + 1 /\ pc' = "task_top"
       ELSE index' = index /\ pc' = "returned"
    /\ UNCHANGED << reqVars, ctl, error, dirs, export_formats, fmt_index,
                    cancelled, emitVars, tracker, sigVars, procVars, cbVars >>

PipelineNext ==
    \/ MakeOutputDirs \/ CheckTasks \/ CheckFormats \/ MakeFormatDirs
    \/ CheckScaleMode \/ TaskTop \/ EmitWait \/ EmitCheck \/ EmitDeliver
    \/ Spawn \/ Attach \/ ReadLine \/ LineCancelBefore \/ LineWait
    \/ LineCancelAfter \/ Synthetic \/ ParseLine \/ ReadStderr \/ Detach
    \/ CancelWait \/ Wait \/ Finish \/ CheckReturnCode \/ TaskNext

\* --------------------------------------------------------------------- time
\* The pipeline thread is blocked (reading a line, or sleeping in a pause-wait
\* loop) while a tracker is live
Blocked ==
    LET paused == request.signals /\ ~pause_event /\ ~cancel_event
    IN  \/ pc = "read"
        \/ pc = "line_wait" /\ paused
        \/ pc = "emit_wait" /\ paused /\ emit_ret \in {"read", "parse"}

\* Faulty variant of Tick: a synthetic step is taken as soon as it is due,
\* without a line being read
TickDrivesSynthetic ==
    /\ Blocked
    /\ LET later == [tracker EXCEPT
                        !.since_real = Min(SyntheticThreshold, @ + 1),
                        !.since_emit = Min(EmitInterval, @ + 1),
                        !.elapsed = Min(MaxElapsed, @ + 1)]
       IN  tracker' = IF NeedsSyntheticUpdate(later)
                      THEN SyntheticStep(later, task.duration_ms, FrameEstimate(task))
                      ELSE later
    /\ tracker' # tracker
    /\ UNCHANGED << reqVars, ctl, pc, error, loopVars, cancelled, emitVars,
                    sigVars, procVars, cbVars >>

\* One tick of the monotonic clock passes
Tick ==
    /\ Blocked
    /\ tracker' = [tracker EXCEPT
                     !.since_real = Min(SyntheticThreshold, @ + 1),
                     !.since_emit = Min(EmitInterval, @ + 1),
                     !.elapsed = Min(MaxElapsed, @ + 1)]
    /\ tracker' # tracker
    /\ UNCHANGED << reqVars, ctl, pc, error, loopVars, cancelled, emitVars,
                    sigVars, procVars, cbVars >>

Next == PipelineNext \/ ControllerNext \/ ProcessNext \/ Tick

Spec == Init /\ [][Next]_vars

\* Scheduling: the pipeline thread and a started controller call keep running,
\* and a child that can move does; nobody is obliged to issue a new request.
FairSpec ==
    /\ Spec
    /\ WF_vars(PipelineNext)
    /\ WF_vars(ControllerFinish)
    /\ WF_vars(ProcessNext)

\* ------------------------------------------------- the tracker taken alone
\* One StageProgressTracker under any sequence of the calls the line loop
\* makes (synthetic_step when due, try_update_from_ffmpeg), with time passing
\* between the calls.
nonTrackerVars ==
    << reqVars, pc, error, loopVars, cancelled, emitVars, sigVars, ctl,
       procVars, cbVars >>

TrackerInit ==
    /\ request = [ tasks |-> 1, export_formats |-> <<>>,
                   scale_mode |-> "center_crop", signals |-> FALSE,
                   progress |-> TRUE, width |-> DefaultWidth,
                   height |-> DefaultHeight, fps |-> fps ]
    /\ task \in TrackerTaskInputs
    /\ posix = TRUE
    /\ pc = "read"
    /\ error = NoError
    /\ dirs = {}
    /\ export_formats = ResolveFormats(request.export_formats)
    /\ index = 1
    /\ fmt_index = 0
    /\ cancelled = FALSE
    /\ emit_arg = 0
    /\ emit_ret = "none"
    /\ tracker = NewTracker
    /\ pause_event = FALSE
    /\ cancel_event = FALSE
    /\ cancel_reason = "none"
    /\ sig_process = 0
    /\ ctl = "absent"
    /\ procs = <<>>
    /\ pipe = 0
    /\ written = 0
    /\ last_report = NoReport
    /\ regressed = FALSE
    /\ worker = "absent"

\* time.monotonic() advances by one tick
TrackerTick ==
    /\ tracker' = [tracker EXCEPT
                     !.since_real = Min(SyntheticThreshold, @ + 1),
                     !.since_emit = Min(EmitInterval, @ + 1),
                     !.elapsed = Min(MaxElapsed, @ + 1)]
    /\ tracker' # tracker
    /\ UNCHANGED nonTrackerVars

\* if tracker.needs_synthetic_update(now): tracker.synthetic_step(...)
TrackerSynthetic ==
    /\ NeedsSyntheticUpdate(tracker)
    /\ tracker' = SyntheticStep(tracker, task.duration_ms, FrameEstimate(task))
    /\ UNCHANGED nonTrackerVars

\* tracker.try_update_from_ffmpeg(key=..., value_text=..., ...)
TrackerUpdate ==
    /\ \E l \in TrackerLineInputs :
          tracker' = TryUpdateFromFfmpeg(tracker, l, FrameEstimate(task),
                                         task.duration_ms)
    /\ UNCHANGED nonTrackerVars

TrackerNext == TrackerTick \/ TrackerSynthetic \/ TrackerUpdate

TrackerSpec == TrackerInit /\ [][TrackerNext]_vars

\* ------------------------------------------- the apng command taken alone
\* The command line of one apng stage, for requests and frame counts that
\* bring the size heuristic into play.
ApngInit ==
    /\ request \in [ tasks : {1}, export_formats : {<<"apng">>},
                      scale_mode : {"center_crop"}, signals : {FALSE},
                      progress : {TRUE}, width : ApngWidthInputs,
                      height : ApngHeightInputs, fps : ApngFpsInputs ]
    /\ task \in [ total_frames : ApngFrameInputs, duration_ms : {0} ]
    /\ posix = TRUE
    /\ pc = "spawn"
    /\ error = NoError
    /\ dirs = {"output_dir", "output", "apng"}
    /\ export_formats = ResolveFormats(request.export_formats)
    /\ index = 1
    /\ fmt_index = 0
    /\ cancelled = FALSE
    /\ emit_arg = 0
    /\ emit_ret = "none"
    /\ tracker = NewTracker
    /\ pause_event = FALSE
    /\ cancel_event = FALSE
    /\ cancel_reason = "none"
    /\ sig_process = 0
    /\ ctl = "absent"
    /\ procs = <<>>
    /\ pipe = 0
    /\ written = 0
    /\ last_report = NoReport
    /\ regressed = FALSE
    /\ worker = "absent"

ApngSpec == ApngInit /\ [][Spawn]_vars

\* ------------------------------------------- convert_files under the worker
\* ConversionWorker: __init__ makes the ControlSignals and sets pause_event;
\* run() installs them in the request and passes _forward_progress as the
\* progress callback; pause(), resume() and cancel() are the controller.
WorkerInit ==
    /\ request \in [ tasks : 0..MaxTasks,
                     export_formats : FormatInputs,
                     scale_mode : ScaleModeInputs,
                     signals : {TRUE},
                     progress : {TRUE},
                     width : {DefaultWidth},
                     height : {DefaultHeight},
                     fps : {fps} ]
    /\ task \in TaskInputs
    /\ posix \in BOOLEAN
    /\ Scenario(request, task, posix)
    /\ pc = "start"
    /\ error = NoError
    /\ dirs = {}
    /\ export_formats = <<>>
    /\ index = 0
    /\ fmt_index = 0
    /\ cancelled = FALSE
    /\ emit_arg = 0
    /\ emit_ret = "none"
    /\ tracker = NewTracker
    /\ pause_event = TRUE
    /\ cancel_event = FALSE
    /\ cancel_reason = "none"
    /\ sig_process = 0
    /\ ctl = "idle"
    /\ procs = <<>>
    /\ pipe = 0
    /\ written = 0
    /\ last_report = NoReport
    /\ regressed = FALSE
    /\ worker = "running"

\* The except clauses of ConversionWorker.run, tried in order, on an exception
\* of class kind.  The name ConversionCancelled of main.py is the class
\* defined in main.py itself; the class of converter.py is not imported.
RunHandler(kind) ==
    IF kind = "main.ConversionCancelled"
    THEN "log_signal"
    ELSE IF kind \in {"ConverterError", "InvalidExportFormat", "InvalidScaleMode"}
    THEN "error_signal"
    ELSE "error_signal"

\* ConversionWorker.run: convert_files raised
WorkerExcept ==
    /\ worker = "running"
    /\ pc = "raised"
    /\ worker' = RunHandler(error.kind)
    /\ UNCHANGED << request, task, posix, pipelineVars, sigVars, ctl, procVars,
                    cbVars >>

\* ConversionWorker.run: convert_files returned
WorkerReturn ==
    /\ worker = "running"
    /\ pc = "returned"
    /\ worker' = "finished"
    /\ UNCHANGED << request, task, posix, pipelineVars, sigVars, ctl, procVars,
                    cbVars >>

WorkerNext == Next \/ WorkerExcept \/ WorkerReturn

WorkerSpec == WorkerInit /\ [][WorkerNext]_vars

\* ------------------------------- pause and resume in pairs, without cancel
\* A valid request with control signals, and a controller thread that calls
\* request_pause and request_resume a finite number of times, each
\* request_pause being followed by a request_resume.
PairedInit ==
    /\ request \in [ tasks : 1..MaxTasks,
                     export_formats : {<<>>, <<"png_sequence", "png_sequence">>},
                     scale_mode : {"center_crop"},
                     signals : {TRUE},
                     progress : {TRUE},
                     width : {DefaultWidth},
                     height : {DefaultHeight},
                     fps : {fps} ]
    /\ task \in TaskInputs
    /\ posix \in BOOLEAN
    /\ Scenario(request, task, posix)
    /\ pc = "start"
    /\ error = NoError
    /\ dirs = {}
    /\ export_formats = <<>>
    /\ index = 0
    /\ fmt_index = 0
    /\ cancelled = FALSE
    /\ emit_arg = 0
    /\ emit_ret = "none"
    /\ tracker = NewTracker
    /\ pause_event = FALSE
    /\ cancel_event = FALSE
    /\ cancel_reason = "none"
    /\ sig_process = 0
    /\ ctl = "idle"
    /\ procs = <<>>
    /\ pipe = 0
    /\ written = 0
    /\ last_report = NoReport
    /\ regressed = FALSE
    /\ worker = "absent"

\* request_pause: pause_event.clear(), in a call a request_resume will follow
PairedPause ==
    /\ ctl = "idle"
    /\ Running
    /\ pause_event' = FALSE
    /\ ctl' = "paired_pause_signal"
    /\ UNCHANGED << reqVars, pipelineVars, cancel_event, cancel_reason,
                    sig_process, procVars, cbVars >>

\* request_pause: send SIGSTOP to the attached process; the call returns
PairedPauseSignal ==
    /\ ctl = "paired_pause_signal"
    /\ \E exc \in {"none"} \cup (IF posix THEN SignalErrors(sig_process) ELSE {}) :
          /\ procs' = IF exc = "none" /\ sig_process # 0 /\ posix
                      THEN [procs EXCEPT ![sig_process] = Stop(@)]
                      ELSE procs
          /\ ctl' = IF AfterSignal(exc) = "idle" THEN "paired_paused" ELSE "raised"
    /\ UNCHANGED << reqVars, pipelineVars, sigVars, pipe, written, cbVars >>

\* Faulty variant of PairedResume: the process is not sent SIGCONT
PairedResumeFlagOnly ==
    /\ ctl = "paired_paused"
    /\ pause_event' = TRUE
    /\ ctl' = "idle"
    /\ UNCHANGED << reqVars, pipelineVars, cancel_event, cancel_reason,
                    sig_process, procVars, cbVars >>

\* request_resume after a request_pause: pause_event.set()
PairedResume ==
    /\ ctl = "paired_paused"
    /\ pause_event' = TRUE
    /\ ctl' = "resume_signal"
    /\ UNCHANGED << reqVars, pipelineVars, cancel_event, cancel_reason,
                    sig_process, procVars, cbVars >>

\* The controller thread has made its last call
ControllerDone ==
    /\ ctl = "idle"
    /\ ctl' = "done"
    /\ UNCHANGED << reqVars, pipelineVars, sigVars, procVars, cbVars >>

PairedControllerNext ==
    PairedPause \/ PairedPauseSignal \/ PairedResume \/ RequestResume
        \/ RequestResumeSignal \/ ControllerDone

\* The steps of convert_files that do not need a cancellation
PairedPipelineNext ==
    \/ MakeOutputDirs \/ CheckTasks \/ CheckFormats \/ MakeFormatDirs
    \/ CheckScaleMode \/ TaskTop \/ EmitWait \/ EmitCheck \/ EmitDeliver
    \/ Spawn \/ Attach \/ ReadLine \/ LineCancelBefore \/ LineWait
    \/ LineCancelAfter \/ Synthetic \/ ParseLine \/ ReadStderr \/ Detach
    \/ Wait \/ Finish \/ CheckReturnCode \/ TaskNext

\* The steps of a process nobody asks to terminate
PairedProcessNext == ProcWrite \/ ProcClose \/ ProcExit

PairedNext ==
    PairedPipelineNext \/ PairedControllerNext \/ PairedProcessNext \/ Tick

\* Scheduling: the pipeline thread keeps running, a process that is not
\* suspended moves on to its exit, a started call of the controller returns,
\* and the request_resume that follows a request_pause is made.
PairedSpec ==
    /\ PairedInit
    /\ [][PairedNext]_vars
    /\ WF_vars(PairedPipelineNext)
    /\ WF_vars(ProcClose \/ ProcExit)
    /\ WF_vars(PairedPauseSignal \/ PairedResume \/ RequestResumeSignal)

TypeOK ==
    /\ pc \in {"start", "check_tasks", "resolve_formats", "format_dirs",
               "check_scale", "task_top", "emit_wait", "emit_check",
               "emit_deliver", "spawn", "attach", "read", "line_c1",
               "line_wait", "line_c2", "synth", "parse", "read_stderr",
               "detach", "cancel_wait", "wait", "finish", "check_rc",
               "task_next", "returned", "raised"}
    /\ sig_process \in 0..Len(procs)
    /\ pipe \in 0..MaxLines
    /\ tracker.stage_ratio \in 0..RatioOne

\* ------------------------------------------------------------------- claims
Cancelled == pc = "raised" /\ error.kind = "ConversionCancelled"
ProcessFailure == pc = "raised" /\ error.kind = "ConverterError" /\ error.stage > 0
ConfigError ==
    /\ pc = "raised"
    /\ error.stage = 0
    /\ error.kind \in {"ConverterError", "InvalidExportFormat", "InvalidScaleMode"}

InEmit == pc \in {"emit_wait", "emit_check", "emit_deliver"}

\* The pipeline thread is outside _run_ffmpeg_with_progress
OutsideRun ==
    \/ pc \in {"start", "check_tasks", "resolve_formats", "format_dirs",
               "check_scale", "task_top", "spawn", "check_rc", "task_next",
               "returned", "raised"}
    \/ InEmit /\ emit_ret \in {"spawn", "task_next"}

\* C1: in a successful run the overall_progress values the progress callback
\* receives never decrease.
C1_OverallNonDecreasing == pc = "returned" => ~regressed

\* C2: a successful run with a progress callback ends with a report whose
\* overall_progress is exactly 1.0, the final report of the last task.
C2_EndsAtOne ==
    (pc = "returned" /\ request.progress) =>
        /\ last_report.overall_progress = One * request.tasks
        /\ last_report.task_index = request.tasks
        /\ last_report.task_progress = One

C2_Witness == pc = "returned" /\ request.progress /\ request.tasks = MaxTasks

\* C3: every report of task i of N has overall_progress equal to
\* min(1, ((i-1) + task_progress) / N) with task_progress in [0,1], so it lies
\* in [(i-1)/N, i/N] and reaches i/N only when task_progress is 1.
C3_OverallInSlice ==
    last_report # NoReport =>
        LET i == last_report.task_index
            n == request.tasks
            tp == last_report.task_progress
            ov == last_report.overall_progress
        IN  /\ i \in 1..n
            /\ tp \in 0..One
            /\ ov = Min(One * n, (i - 1) * One + tp)
            /\ (i - 1) * One <= ov
            /\ ov <= i * One
            /\ ov = i * One => tp = One

C3_Witness ==
    /\ last_report.task_index = 2
    /\ last_report.task_progress > prep_base
    /\ last_report.task_progress < One

\* request_cancel has just set the cancel flag while the batch was paused: the
\* pause flag is clear, a process is attached and (with stop signals) suspended
CancelWhilePaused ==
    /\ ctl = "cancel_pause"
    /\ ~pause_event
    /\ sig_process # 0
    /\ ~OutsideRun
    /\ posix => procs[sig_process].stopped

\* C4: when cancellation is requested while the batch is paused, every
\* pause-wait loop exits and convert_files ends by raising ConversionCancelled.
C4_CancelWhilePausedEnds == CancelWhilePaused ~> Cancelled

\* C5: when convert_files has ended by raising ConversionCancelled (and no
\* request_cancel call is still under way), every process it spawned has exited
\* or has been asked to terminate.
C5_NoProcessLeftRunning ==
    (Cancelled /\ ctl = "idle") =>
        \A i \in 1..Len(procs) : ~Alive(procs[i]) \/ procs[i].term_requested

\* C6: a process that exits because request_cancel terminated it never makes
\* convert_files raise the process-failure ConverterError (nor return).
C6_CancelIsNotFailure ==
    (\E i \in 1..Len(procs) : procs[i].rc = TermRc) =>
        ~ProcessFailure /\ pc # "returned"

C6_Witness ==
    /\ Cancelled
    /\ Len(procs) > 0
    /\ procs[Current].st = "reaped"
    /\ procs[Current].rc = TermRc
    /\ ~cancelled

\* C7: outside _run_ffmpeg_with_progress, and after convert_files has ended,
\* ControlSignals holds no process reference.
C7_DetachedOutsideRun == OutsideRun => sig_process = 0

\* C8: at most one spawned process is live at any instant; a stage's process
\* is spawned only after every earlier one has exited and been waited for.
C8_OneProcessAtATime ==
    /\ Cardinality({ i \in 1..Len(procs) : Alive(procs[i]) }) <= 1
    /\ \A i \in 1..Len(procs) : i < Len(procs) => procs[i].st = "reaped"

C8_Witness == Len(procs) >= 2 /\ Alive(procs[Current])

\* C9: a process that exits non-zero without any cancellation request makes
\* convert_files raise ConverterError for that stage, and no process is spawned
\* after it.
C9_FailureAbortsBatch ==
    \A i \in 1..Len(procs) :
        (procs[i].st = "reaped" /\ procs[i].rc # 0 /\ ~cancel_event) =>
            /\ i = Len(procs)
            /\ \/ pc \in {"finish", "check_rc"}
               \/ InEmit /\ emit_ret = "check_rc"
               \/ ProcessFailure /\ error.stage = i

C9_Witness ==
    /\ ProcessFailure
    /\ ~cancel_event
    /\ error.stage = 1
    /\ Len(procs) = 1
    /\ Stages(request) >= 2

\* C10: a configuration error (empty task list, unknown export format, unknown
\* scale mode) is raised before any directory has been created.
C10_ConfigErrorLeavesNoDirs == ConfigError => dirs = {}

\* The request is one convert_files rejects: no task, an unknown export format
\* or an unknown scale mode
InvalidRequest ==
    \/ request.tasks = 0
    \/ \E f \in Range(ResolveFormats(request.export_formats)) :
          f \notin {"gif", "apng", "png_sequence"}
    \/ request.scale_mode \notin {"center_crop", "stretch", "force_aspect"}

\* C11: called with an empty task list, an unknown export format or an unknown
\* scale mode, convert_files ends only by raising a configuration error, and no
\* external process is spawned at any point of the call.
C11_InvalidRequestSpawnsNothing ==
    InvalidRequest =>
        /\ procs = <<>>
        /\ sig_process = 0
        /\ pc \notin {"spawn", "returned"}
        /\ pc = "raised" => ConfigError

C11_Witness ==
    /\ ConfigError
    /\ error.kind = "InvalidScaleMode"
    /\ request.tasks > 0
    /\ request.signals
    /\ ctl = "cancel_terminate"

\* C12: whatever the interleaving with request_pause, no progress report is
\* delivered to the progress callback in a state where the pause flag and the
\* cancel flag are both clear (here: once request_pause has returned).
C12_NoReportWhilePaused ==
    [][ (pc = "emit_deliver" /\ pc' # pc /\ request.signals /\ request.progress
            /\ ctl = "idle")
          => (pause_event \/ cancel_event) ]_vars

\* C13: with stop/continue signals, whenever the pause flag is clear, the
\* cancel flag is clear and a live process is attached (and no request is
\* under way), that process is suspended.
C13_PausedProcessSuspended ==
    (posix /\ request.signals /\ ~pause_event /\ ~cancel_event /\ ctl = "idle"
        /\ sig_process # 0 /\ Alive(procs[sig_process]))
      => procs[sig_process].stopped

C15_AttachFrame ==
    [][ /\ (pc = "detach" /\ pc' # pc /\ request.signals) =>
              /\ sig_process' = 0
              /\ pause_event'
              /\ UNCHANGED << cancel_event, cancel_reason >>
        /\ (pc = "attach" /\ pc' # pc /\ request.signals) =>
              /\ sig_process' = Current
              /\ UNCHANGED << pause_event, cancel_event, cancel_reason >>
      ]_vars

\* attach(None) is about to be called in a batch that is paused: the pause
\* flag is clear, the process is attached and no resume or cancel was requested
C15_Witness ==
    /\ pc = "detach"
    /\ request.signals
    /\ ~pause_event
    /\ ~cancel_event
    /\ ctl = "idle"
    /\ sig_process = Current

\* C17: over any sequence of try_update_from_ffmpeg and synthetic_step calls
\* on one tracker, the stage ratio never decreases and stays in [0,1], and the
\* stage-local ratios forwarded to the emit callback never decrease.
C17_StageRatioMonotone ==
    [][ /\ tracker'.stage_ratio \in 0..RatioOne
        /\ tracker'.stage_ratio >= tracker.stage_ratio
        /\ tracker'.last_emit_ratio >= tracker.last_emit_ratio ]_vars

FrameLine(n) ==
    CHOOSE l \in TrackerLineInputs : l.key = "frame" /\ l.number = n

\* C18: a real progress line yielding ratio r sets the stage ratio and the
\* last real ratio to min(1, max(r, previous last real ratio)); with a frame
\* estimate of 200, frame=50 gives 0.25 and a following frame=40 leaves 0.25;
\* the last real ratio never decreases.
C18_RealUpdateClamps ==
    LET fe == FrameEstimate(task)
        d == task.duration_ms
        quarter == RatioOne \div 4
    IN  /\ \A l \in TrackerLineInputs :
              LET r == ParsedRatio(l, fe, d)
                  after == TryUpdateFromFfmpeg(tracker, l, fe, d)
                  expected == Min(RatioOne, Max(r, tracker.last_real_ratio))
              IN  /\ after.last_real_ratio >= tracker.last_real_ratio
                  /\ (r >= 0 /\ l.key # "progress") =>
                        /\ after.stage_ratio = expected
                        /\ after.last_real_ratio = expected
        /\ SyntheticStep(tracker, d, fe).last_real_ratio = tracker.last_real_ratio
        /\ (fe = 200 /\ tracker.last_real_ratio <= quarter) =>
              LET first == TryUpdateFromFfmpeg(tracker, FrameLine(50), fe, d)
                  second == TryUpdateFromFfmpeg(first, FrameLine(40), fe, d)
              IN  /\ first.stage_ratio = quarter
                  /\ first.last_real_ratio = quarter
                  /\ second.stage_ratio = quarter
                  /\ second.last_real_ratio = quarter

\* With a frame estimate of 200: frame=50 was read and emitted, and one tick
\* later a real line that moved nothing (frame=40) was read
C18_Witness ==
    /\ FrameEstimate(task) = 200
    /\ tracker.stage_ratio = RatioOne \div 4
    /\ tracker.last_real_ratio = RatioOne \div 4
    /\ tracker.last_emit_ratio = RatioOne \div 4
    /\ tracker.since_real = 0
    /\ tracker.since_emit = 1

\* C19: progress=end sets the stage ratio and the last real ratio to exactly
\* 1.0 whatever the previous value and whether or not a frame estimate or a
\* duration is known; after it no real or synthetic update lowers the stage
\* ratio below 1.0.
C19_ProgressEndForcesOne ==
    LET fe == FrameEstimate(task)
        d == task.duration_ms
    IN  /\ \A l \in TrackerLineInputs :
              (l.key = "progress" /\ l.text = "end") =>
                  LET after == TryUpdateFromFfmpeg(tracker, l, fe, d)
                  IN  /\ after.stage_ratio = RatioOne
                      /\ after.last_real_ratio = RatioOne
                      /\ SyntheticStep(after, d, fe).stage_ratio = RatioOne
                      /\ \A l2 \in TrackerLineInputs :
                            TryUpdateFromFfmpeg(after, l2, fe, d).stage_ratio
                                = RatioOne
        /\ tracker.last_real_ratio = RatioOne => tracker.stage_ratio = RatioOne

\* progress=end was read by a tracker with neither estimate nor duration,
\* after synthetic steps had been emitted
C19_Witness ==
    /\ FrameEstimate(task) = 0
    /\ task.duration_ms = 0
    /\ tracker.last_real_ratio = RatioOne
    /\ tracker.stage_ratio = RatioOne
    /\ tracker.elapsed > 0

\* C20: with neither a duration nor a frame estimate, synthetic_step raises
\* the stage ratio by exactly 0.01 while it is below 1.0, caps it at 1.0 and
\* never lowers it; at 1.0 it changes nothing and emits nothing.
C20_SyntheticStepIsOneHundredth ==
    (task.duration_ms = 0 /\ FrameEstimate(task) = 0) =>
        LET after == SyntheticStep(tracker, task.duration_ms, FrameEstimate(task))
            hundredth == RatioOne \div 100
        IN  IF tracker.stage_ratio < RatioOne
            THEN /\ after.stage_ratio
                      = Min(RatioOne, tracker.stage_ratio + hundredth)
                 /\ after.stage_ratio > tracker.stage_ratio
                 /\ tracker.stage_ratio + hundredth <= RatioOne
                 /\ after.last_emit_ratio = after.stage_ratio
                 /\ after.since_emit = 0
            ELSE after = tracker

\* One hundred synthetic steps and no real update have brought the ratio to 1.0
C20_Witness ==
    /\ task.duration_ms = 0
    /\ FrameEstimate(task) = 0
    /\ tracker.stage_ratio = RatioOne
    /\ tracker.last_real_ratio = 0
    /\ tracker.last_emit_ratio = RatioOne

\* C16: request_pause, request_resume and request_cancel never raise: with no
\* process attached they only change the flags and the reason, and a failure
\* to signal or terminate the attached process (already exited, or reference
\* swapped by attach) is swallowed, the flag changes staying in effect.
C16_RequestsNeverRaise ==
    [][ /\ ctl' # "raised"
        /\ (ctl = "idle" /\ ctl' = "pause_signal") =>
              ~pause_event' /\ UNCHANGED << cancel_event, cancel_reason, procs >>
        /\ (ctl = "idle" /\ ctl' = "resume_signal") =>
              pause_event' /\ UNCHANGED << cancel_event, cancel_reason, procs >>
        /\ (ctl = "idle" /\ ctl' = "cancel_pause") =>
              cancel_event' /\ cancel_reason' = "set" /\ UNCHANGED procs
        /\ (ctl = "cancel_pause" /\ ctl' # ctl) =>
              pause_event' /\ cancel_event' /\ UNCHANGED procs
        /\ (ctl \in {"pause_signal", "resume_signal", "cancel_terminate"}
              /\ ctl' # ctl) =>
              /\ ctl' = "idle"
              /\ UNCHANGED sigVars
              /\ (sig_process = 0 \/ ~Alive(procs[sig_process])) => UNCHANGED procs
      ]_vars

\* request_cancel is about to terminate a process that has already exited
C16_Witness ==
    /\ ctl = "cancel_terminate"
    /\ sig_process # 0
    /\ ~Alive(procs[sig_process])
    /\ cancel_event
    /\ pause_event

\* Global value of the terminal report (stage ratio 1.0) of the stage in flight
TerminalValue == GlobalRatio(Len(export_formats), fmt_index, RatioOne)

\* C21: a stage run to process exit delivers exactly one report with stage
\* ratio 1.0 (global value base + extent), its last one: when finish()
\* delivers it, the report before it was not a terminal report of the stage.
C21_OneTerminalReport ==
    [][ (/\ pc = "emit_deliver" /\ pc' # pc
         /\ request.progress
         /\ emit_ret = "check_rc"
         /\ emit_arg = TerminalValue)
        => ~(/\ last_report.task_index = index
             /\ last_report.task_progress = TerminalValue) ]_vars

\* C22: with k resolved formats the stages of a task get the windows
\* [base_j, base_j + extent], equal in width, contiguous (base_{j+1} =
\* base_j + extent, base_0 = preparation allowance), with extent =
\* (1 - preparation allowance) / k.
C22_FormatWindows ==
    export_formats # <<>> =>
        LET k == Len(export_formats)
            extent == FormatExtent(k)
        IN  /\ StageBase(k, 0) = prep_base
            /\ \A j \in 0..(k - 1) :
                  /\ GlobalRatio(k, j, 0) = StageBase(k, j)
                  /\ GlobalRatio(k, j, RatioOne) = StageBase(k, j) + extent
                  /\ StageBase(k, j + 1) = StageBase(k, j) + extent
            /\ extent > 0
            /\ k * extent = One - prep_base

\* The (task, format) pairs of request r in task-major order, the formats
\* deduplicated in request order
ExpectedStages(r) ==
    LET raw == IF r.export_formats = <<>> THEN <<"gif", "apng">>
               ELSE r.export_formats
        f == Dedup(raw, {})
        k == Len(f)
    IN  [ n \in 1..(r.tasks * k) |->
            [ task_index |-> ((n - 1) \div k) + 1, fmt |-> f[((n - 1) % k) + 1] ] ]

\* C24: the processes spawned are, in order, those of the pairs (t1,f1),
\* (t1,f2), ..., (tN,fk), one each and none for another pair; a successful
\* run has spawned them all.
C24_OneProcessPerPair ==
    LET e == ExpectedStages(request)
    IN  /\ Len(procs) <= Len(e)
        /\ \A n \in 1..Len(procs) :
              /\ procs[n].task_index = e[n].task_index
              /\ procs[n].fmt = e[n].fmt
        /\ pc = "returned" => Len(procs) = Len(e)

C24_Witness ==
    /\ pc = "returned"
    /\ request.tasks = 2
    /\ Len(procs) = 4
    /\ procs[3].task_index = 2
    /\ procs[3].fmt = "gif"

\* C25: no external process is started for a request whose width, height or
\* frame rate is non-positive; the call does not succeed.
C25_NonPositiveSpawnsNothing ==
    (request.width <= 0 \/ request.height <= 0 \/ request.fps <= 0) =>
        procs = <<>> /\ pc # "returned"

\* C26: the filter chain of every stage's command line encodes the scale
\* mode of the request.
C26_FilterEncodesScaleMode ==
    \A i \in 1..Len(procs) :
        LET f == procs[i].command.filter
        IN  /\ request.scale_mode = "center_crop" =>
                  f.scale = "increase" /\ f.fit = "crop"
            /\ request.scale_mode = "stretch" =>
                  f.scale = "plain" /\ f.fit = "none"
            /\ request.scale_mode = "force_aspect" =>
                  f.scale = "decrease" /\ f.fit = "pad"

\* C27: in a run with a progress callback the report with task_progress 1.0
\* of a task is delivered after the terminal report of the task's last stage
\* and before the first report (0%) of the next task, and no process of the
\* next task is spawned before it.
C27_DoneReportBetweenTasks ==
    request.progress =>
        LET k == Len(export_formats)
        IN  /\ (pc = "emit_deliver" /\ emit_ret = "task_next") =>
                  /\ emit_arg = One
                  /\ last_report.task_index = index
                  /\ last_report.task_progress = prep_base + formats_extent
                  /\ Len(procs) = index * k
                  /\ procs[Current].st = "reaped"
            /\ pc = "task_next" =>
                  /\ last_report.task_index = index
                  /\ last_report.task_progress = One
                  /\ Len(procs) = index * k
            /\ (index > 1 /\ (pc = "task_top" \/ (InEmit /\ emit_ret = "spawn"))) =>
                  /\ last_report.task_index = index - 1
                  /\ last_report.task_progress = One
                  /\ Len(procs) = (index - 1) * k
            /\ \A n \in 1..Len(procs) :
                  last_report.task_index >= procs[n].task_index

\* The first report of task 2 is about to be delivered: the last one
\* delivered is the 100% report of task 1
C27_Witness ==
    /\ pc = "emit_deliver"
    /\ emit_ret = "spawn"
    /\ index = 2
    /\ last_report.task_index = 1
    /\ last_report.task_progress = One
    /\ Len(procs) = 2

\* C28: with the cancel flag set when the loop reaches the top of a task,
\* convert_files raises ConversionCancelled there, spawning no process and
\* delivering no report for that task or a later one.
C28_CancelAtTaskTop ==
    [][ /\ (pc = "task_top" /\ pc' # pc /\ request.signals /\ cancel_event) =>
              /\ Cancelled'
              /\ Len(procs') = Len(procs)
              /\ last_report' = last_report
        /\ pc = "raised" =>
              /\ pc' = "raised"
              /\ Len(procs') = Len(procs)
              /\ last_report' = last_report ]_vars

\* The loop is at the top of the second task with the cancel flag set
C28_Witness ==
    /\ pc = "task_top"
    /\ index = 2
    /\ request.signals
    /\ cancel_event
    /\ ctl = "idle"

\* C29: the tracker forwards a stage ratio only if it advanced by at least
\* 0.001 since the last emission, or at least 0.2 s passed since then, or it
\* is 1.0 (forced emission being kept for the initial and the final report,
\* neither of which synthetic_step or try_update_from_ffmpeg makes).
C29_EmissionThrottled ==
    [][ (\/ tracker'.last_emit_ratio # tracker.last_emit_ratio
         \/ tracker'.since_emit = 0 /\ tracker.since_emit > 0)
        => \/ tracker'.last_emit_ratio - tracker.last_emit_ratio
                  >= RatioOne \div 1000
           \/ tracker.since_emit * TickMs >= 200
           \/ tracker'.last_emit_ratio >= RatioOne ]_vars

\* Frames the apng output holds under command c: the frame cap if there is
\* one, else the frame estimate at the adjusted frame rate
EffectiveFrames(c) ==
    IF c.max_frames > 0
    THEN c.max_frames
    ELSE (FrameEstimate(task) * c.filter.fps.num)
             \div (c.filter.fps.den * request.fps)

\* C23: for width 320, height 180, frame rate 30 and frame estimate 600 the
\* adjusted frame rate and frame cap give width*height*0.5*effective_frames
\* <= 2 MiB, with at least 30 effective frames and at least 6 fps.
C23_ApngExampleWithinBudget ==
    (/\ Len(procs) = 1
     /\ request.width = 320 /\ request.height = 180 /\ request.fps = 30
     /\ task.total_frames = 600) =>
        LET c == procs[1].command
        IN  /\ 320 * 180 * EffectiveFrames(c) <= 2 * 2097152
            /\ EffectiveFrames(c) >= 30
            /\ c.filter.fps.num >= 6 * c.filter.fps.den

C23_Witness ==
    /\ Len(procs) = 1
    /\ request.width = 320 /\ request.height = 180 /\ request.fps = 30
    /\ task.total_frames = 600
    /\ procs[1].command.max_frames = 72
    /\ procs[1].command.filter.fps = [num |-> 6, den |-> 1]

\* C30: for positive width, height, frame rate and frame estimate the
\* returned frame rate is never above the requested one and never below 6 fps
\* when the requested one is at least 6; the inputs come back unchanged, with
\* no cap, when width*height*0.5*frame_estimate is within 2 MiB; a returned
\* cap is max(30, floor(budget / (width*height*0.5))), so at least 30.
C30_ApngParamsBounds ==
    (Len(procs) = 1 /\ task.total_frames > 0) =>
        LET c == procs[1].command
            w == request.width
            h == request.height
        IN  /\ c.filter.fps.num <= request.fps * c.filter.fps.den
            /\ request.fps >= 6 => c.filter.fps.num >= 6 * c.filter.fps.den
            /\ w * h * task.total_frames <= 2 * 2097152 =>
                  c.filter.fps = Rate(request.fps) /\ c.max_frames = 0
            /\ c.max_frames > 0 =>
                  /\ c.max_frames = Max(30, (2 * 2097152) \div (w * h))
                  /\ c.max_frames >= 30

\* A request below 6 fps whose frames are capped at the 30-frame minimum
C30_Witness ==
    /\ Len(procs) = 1
    /\ request.fps = 5
    /\ request.width = 1000 /\ request.height = 1000
    /\ task.total_frames = 600
    /\ procs[1].command.max_frames = 30
    /\ procs[1].command.filter.fps = Rate(5)

\* C31: when convert_files ends by raising its ConversionCancelled,
\* ConversionWorker.run reports it through the log message of its cancellation
\* handler and never through error_signal.
C31_CancellationNotAnError ==
    (Cancelled /\ worker # "running") => worker = "log_signal"

\* C32: once request_cancel has set the cancel flag, no step clears it, and
\* from then on neither pause-wait loop blocks, whatever the pause flag is.
C32_CancelFlagSticky ==
    /\ [][cancel_event => cancel_event']_vars
    /\ [](cancel_event =>
            /\ pc = "line_wait" => ENABLED LineWait
            /\ pc = "emit_wait" => ENABLED EmitWait)

\* The cancel flag is set, a later pause request has cleared the pause flag,
\* and the pipeline is in the pause-wait loop of the line loop
C32_Witness ==
    /\ cancel_event
    /\ ~pause_event
    /\ ctl = "idle"
    /\ pc = "line_wait"

\* C33: while the pipeline waits for the next line of the progress channel
\* (or its end of stream), no synthetic step is taken and no progress report
\* is delivered, however much time passes; the wait ends only with a line or
\* with the end of the stream.
C33_SyntheticNeedsALine ==
    [][ pc = "read" =>
          /\ pc' \in {"read", "line_c1", "read_stderr"}
          /\ last_report' = last_report
          /\ emit_arg' = emit_arg
          /\ pc' # "read_stderr" =>
                /\ tracker'.stage_ratio = tracker.stage_ratio
                /\ tracker'.last_emit_ratio = tracker.last_emit_ratio ]_vars

\* The initial report of a stage was the last one delivered, no line has been
\* written yet, and a synthetic step has long been due
C33_Witness ==
    /\ pc = "read"
    /\ written = 0
    /\ tracker.elapsed = MaxElapsed
    /\ NeedsSyntheticUpdate(tracker)
    /\ tracker.stage_ratio = 0
    /\ request.progress
    /\ last_report.task_index = index
    /\ last_report.task_progress = StageBase(Len(export_formats), fmt_index)

\* C34: when convert_files raises the ConverterError of a process that exited
\* with a non-zero status, the terminal report of that stage (stage ratio 1.0,
\* task_progress base + extent) is the last report the progress callback
\* received.
C34_TerminalReportBeforeFailure ==
    (ProcessFailure /\ request.progress) =>
        /\ error.stage = Current
        /\ procs[Current].rc # 0
        /\ last_report.task_index = index
        /\ last_report.task_progress = TerminalValue

\* The process of a second format failed, with no cancellation requested
C34_Witness ==
    /\ ProcessFailure
    /\ request.progress
    /\ ~cancel_event
    /\ fmt_index = 1
    /\ procs[Current].rc = 1
    /\ last_report.task_progress = TerminalValue

\* C35: if every process exits with status 0 and the controller thread makes
\* finitely many request_pause and request_resume calls, every request_pause
\* followed by a request_resume, and no request_cancel, then convert_files
\* eventually returns normally.
C35_PausedRunReturns ==
    ([](\A n \in 1..Len(procs) : procs[n].rc = 0) /\ <>(ctl = "done"))
        => <>(pc = "returned")

\* A paused batch whose process is suspended, the request_resume still to come
C35_Witness ==
    /\ ctl = "paired_paused"
    /\ ~pause_event
    /\ posix
    /\ sig_process = Current
    /\ Current > 0
    /\ procs[Current].stopped
    /\ pc = "read"

====
